---- MODULE Spec2Model ----
(***************************************************************************)
(* A model of ccgan/ccgan.py: the CCGAN object (its configuration, the     *)
(* discriminator, generator and combined model with the parameters they    *)
(* update), the masking procedure mask_randomly, the dataset preprocessing *)
(* and the training loop of train with its periodic save_imgs/save_model.  *)
(*                                                                         *)
(* Network parameters are modelled by the number of optimizer steps        *)
(* applied to them (d_params, g_params); images are arrays of pixels,      *)
(* functions from <<row, column, channel>> to a value; a file is a name    *)
(* and a content <<kind, what, version>>.                                  *)
(***************************************************************************)
EXTENDS Integers, Sequences, FiniteSets, TLC

VARIABLES
    img_rows, img_cols, mask_height, mask_width,  \* self.* of __init__
    trainable,      \* self.discriminator.trainable
    collected,      \* model name -> networks its train_on_batch updates
    d_params,       \* optimizer steps applied to the discriminator's weights
    g_params,       \* optimizer steps applied to the generator's weights
    loader,         \* what cifar10.load_data() returns: <<y_train, y_test>>
    epochs, batch_size, save_interval,            \* arguments of train
    X_train, y_train, half_batch,                 \* locals of train
    it,             \* position of the iterator of range(epochs)
    epoch,          \* the loop variable (-1: not yet bound)
    locals,         \* idx, imgs, labels, masked_imgs, gen_imgs, valid, ...
    y1, x1,         \* offsets drawn by the last mask_randomly call
    calls,          \* the steps of the current iteration, in order
    end_params,     \* history: parameters at the end of each epoch
    files,          \* the disk: file name -> content
    pc,             \* position in the program
    raised          \* the uncaught exception, "" when none

cfg  == <<img_rows, img_cols, mask_height, mask_width>>
net  == <<trainable, collected, d_params, g_params>>
args == <<loader, epochs, batch_size, save_interval>>
data == <<X_train, y_train, half_batch>>
loop == <<it, epoch, locals, y1, x1>>
hist == <<calls, end_params>>
vars == <<cfg, net, args, data, loop, hist, files, pc, raised>>

----------------------------------------------------------------------------
(* Bounds *)

MaxDim      == 3    \* image and mask sides range over 1..MaxDim (SpecMask)
MaxMaskBatch == 2   \* images per batch given to mask_randomly (SpecMask)
MaxSplit    == 2    \* samples per split returned by the loader (SpecPrep)
MaxEpochs   == 2    \* epochs argument ranges over 0..MaxEpochs
MaxInterval == 2    \* save_interval ranges over 1..MaxInterval

(* Program constants *)
channels    == 3
num_classes == 2
c           == 6

\* Original class labels of the dataset provider; 0 stands for any other class.
CAT == 3
DOG == 5
RawLabels == {0, CAT, DOG}

\* Batch sizes train is run with: 1 (half batch 0), an even and an odd one.
BatchSizes == {1, 2, 3}

\* Configurations <<img_rows, img_cols, mask_height, mask_width>> train is run
\* with: a mask smaller than a square image, and a mask as large as the image.
TrainConfigs == { <<3, 3, 1, 2>>, <<2, 2, 2, 2>> }

\* Datasets train is run with: one cat and one dog, the same with another
\* class and a test split, more cats than dogs, neither cats nor dogs.
TrainLoaders == { << <<CAT, DOG>>, <<>> >>,
                  << <<DOG, 0>>, <<CAT>> >>,
                  << <<CAT, CAT>>, <<DOG>> >>,
                  << <<0>>, <<>> >> }

----------------------------------------------------------------------------
(* numpy *)

\* np.random.randint(low, high, size): the arrays it can return; high is
\* exclusive and low >= high raises ValueError (the empty set here).
randint_inclusive(low, high, size) ==
    IF low > high THEN {} ELSE [1..size -> low..high]

randint(low, high, size) ==
    IF low >= high THEN {} ELSE [1..size -> low..(high - 1)]

ones(n)  == [i \in 1..n |-> <<1>>]
zeros(n) == [i \in 1..n |-> <<0>>]
full(n, v) == [i \in 1..n |-> <<v>>]

\* keras.utils.to_categorical on an (n, 1) array of class indices
to_categorical(y, n) ==
    [i \in 1..Len(y) |-> [k \in 1..n |-> IF k - 1 = y[i][1] THEN 1 ELSE 0]]

\* a[idx] for an index array idx (0-based indices into a)
Take(a, idx) == [i \in 1..Len(idx) |-> a[idx[i] + 1]]

\* np.vstack of two 1-D arrays: both become one row of a 2-D array, which
\* needs rows of equal length (ValueError otherwise).
vstack1d_raises(a, b) == Len(a) # Len(b)
vstack1d(a, b) == <<a, b>>

\* a.reshape(-1, 1) of a 2-row array: row-major, one element per row
reshape_col(m) == [i \in 1..(Len(m[1]) + Len(m[2])) |->
                     IF i <= Len(m[1]) THEN <<m[1][i]>>
                     ELSE <<m[2][i - Len(m[1])]>>]

----------------------------------------------------------------------------
(* Images *)

Pixels == (0..(img_rows - 1)) \X (0..(img_cols - 1)) \X (0..(channels - 1))

\* The image of the dataset at position k (1-based) of the concatenated
\* splits: after rescaling to [-1, 1] no pixel is 0; the value k stands for
\* the content of image k.
DatasetImage(k) == [p \in Pixels |-> k]

\* Images given to mask_randomly on its own: constant ones (0 included) and
\* one whose pixels differ.
ImagePool == { [p \in Pixels |-> 0], [p \in Pixels |-> 1],
               [p \in Pixels |-> 1 + ((p[1] + 2 * p[2] + p[3]) % 3)] }

----------------------------------------------------------------------------
(* mask_randomly, lines 132-145 *)

YHigh == img_rows - mask_height
XHigh == img_rows - mask_width

mask_raises(n) == randint(0, YHigh, n) = {} \/ randint(0, XHigh, n) = {}

\* masked_img = img.copy(); masked_img[_y1:_y2, _x1:_x2, :] = 0
\* (a slice that reaches past the array is cut at its end)
MaskOne(img, _y1, _y2, _x1, _x2) ==
    [p \in DOMAIN img |->
        IF _y1 <= p[1] /\ p[1] < _y2 /\ _x1 <= p[2] /\ p[2] < _x2
        THEN 0 ELSE img[p]]

masked(imgs, yy, xx) ==
    [i \in 1..Len(imgs) |->
        MaskOne(imgs[i], yy[i], yy[i] + mask_height, xx[i], xx[i] + mask_width)]

NoLocals == [idx |-> <<>>, imgs |-> <<>>, labels |-> <<>>, masked_imgs |-> <<>>,
             gen_imgs |-> <<>>, valid |-> <<>>, fake |-> <<>>,
             fake_labels |-> <<>>]

Raise(kind) == pc' = "error" /\ raised' = kind

\* One entry of the record of the current iteration's steps: the function
\* called, its inputs x and targets y, and the parameters after the step.
Call(fn, x, y, g, d) == [fn |-> fn, x |-> x, y |-> y, g |-> g, d |-> d]

\* A call masked_imgs = self.mask_randomly(imgs) at position `at`
MaskCall(at, then) ==
    /\ pc = at
    /\ IF mask_raises(Len(locals.imgs))
       THEN /\ Raise("ValueError")
            /\ UNCHANGED <<loop, calls>>
       ELSE \E yy \in randint(0, YHigh, Len(locals.imgs)),
               xx \in randint(0, XHigh, Len(locals.imgs)) :
              /\ locals' = [locals EXCEPT
                              !.masked_imgs = masked(locals.imgs, yy, xx)]
              /\ y1' = yy
              /\ x1' = xx
              /\ calls' = Append(calls,
                     Call("mask_randomly", locals.imgs, <<yy, xx>>,
                          g_params, d_params))
              /\ pc' = then
              /\ UNCHANGED <<it, epoch, raised>>
    /\ UNCHANGED <<cfg, net, args, data, end_params, files>>

\* mask_randomly called on its own, on any batch
MaskRandomly == MaskCall("mask_randomly", "masked")

Unset == /\ trainable = TRUE
         /\ collected = <<>>
         /\ d_params = 0 /\ g_params = 0
         /\ X_train = <<>> /\ y_train = <<>> /\ half_batch = 0
         /\ it = 0 /\ epoch = -1
         /\ y1 = <<>> /\ x1 = <<>>
         /\ calls = <<>> /\ end_params = <<>>
         /\ files = <<>>
         /\ raised = ""

InitMask ==
    /\ img_rows \in 1..MaxDim /\ img_cols \in 1..MaxDim
    /\ mask_height \in 1..MaxDim /\ mask_width \in 1..MaxDim
    /\ loader = << <<>>, <<>> >>
    /\ epochs = 0 /\ batch_size = 0 /\ save_interval = 1
    /\ Unset
    /\ \E n \in 1..MaxMaskBatch : \E b \in [1..n -> ImagePool] :
          locals = [NoLocals EXCEPT !.imgs = b]
    /\ pc = "mask_randomly"

NextMask == MaskRandomly

SpecMask == InitMask /\ [][NextMask]_vars

----------------------------------------------------------------------------
(* __init__, lines 20-58 *)

\* Model.compile collects the weights its train_on_batch will update: those
\* of the layers that are trainable when compile is called.  The generator
\* "G" is always trainable, the discriminator "D" by its trainable flag.
CollectTrainable(layers) == {l \in layers : l = "G" \/ trainable}

Bind(name, layers) == (name :> CollectTrainable(layers)) @@ collected

\* lines 32-36
CompileDiscriminator ==
    /\ pc = "compile_discriminator"
    /\ collected' = Bind("discriminator", {"D"})
    /\ pc' = "compile_generator"
    /\ UNCHANGED <<cfg, trainable, d_params, g_params, args, data, loop, hist,
                   files, raised>>

\* lines 39-41
CompileGenerator ==
    /\ pc = "compile_generator"
    /\ collected' = Bind("generator", {"G"})
    /\ pc' = "freeze"
    /\ UNCHANGED <<cfg, trainable, d_params, g_params, args, data, loop, hist,
                   files, raised>>

\* line 48: self.discriminator.trainable = False
TrainableLeftOn == TRUE

TrainableForCombined == FALSE

\* lines 44-48
Freeze ==
    /\ pc = "freeze"
    /\ trainable' = TrainableForCombined
    /\ pc' = "compile_combined"
    /\ UNCHANGED <<cfg, collected, d_params, g_params, args, data, loop, hist,
                   files, raised>>

\* lines 51-58
CompileCombined ==
    /\ pc = "compile_combined"
    /\ collected' = Bind("combined", {"G", "D"})
    /\ pc' = "load_data"
    /\ UNCHANGED <<cfg, trainable, d_params, g_params, args, data, loop, hist,
                   files, raised>>

----------------------------------------------------------------------------
(* train: the dataset, lines 153-173 *)

\* y_train = np.vstack((y_train, y_test)), one label per row
Stacked == loader[1] \o loader[2]

\* positions (1-based) of the samples of the stacked splits with label l:
\* X_train[(y_train == l).flatten()] keeps their order
Positions(l) ==
    SelectSeq([k \in 1..Len(Stacked) |-> k], LAMBDA k : Stacked[k] = l)

\* y_train[y_train == l]: a 1-D array of the selected labels
Selected(l) == SelectSeq(Stacked, LAMBDA v : v = l)

\* y_train[y_train == 3] = 0 ; y_train[y_train == 5] = 1
Relabel(m) == [r \in 1..Len(m) |-> [j \in 1..Len(m[r]) |->
                 IF m[r][j] = CAT THEN 0
                 ELSE IF m[r][j] = DOG THEN 1 ELSE m[r][j]]]

Preprocess ==
    /\ pc = "load_data"
    /\ IF vstack1d_raises(Selected(CAT), Selected(DOG))     \* line 164
       THEN /\ Raise("ValueError")
            /\ X_train' = Positions(CAT) \o Positions(DOG)  \* line 163
            /\ UNCHANGED y_train
       ELSE /\ X_train' = Positions(CAT) \o Positions(DOG)
            /\ y_train' = reshape_col(Relabel(
                              vstack1d(Selected(CAT), Selected(DOG))))
            /\ pc' = "class_weights"
            /\ UNCHANGED raised
    /\ UNCHANGED <<cfg, net, args, half_batch, loop, hist, files>>

InitPrep ==
    /\ img_rows = 2 /\ img_cols = 2 /\ mask_height = 1 /\ mask_width = 1
    /\ \E n \in 0..MaxSplit, m \in 0..MaxSplit :
          loader \in ([1..n -> RawLabels] \X [1..m -> RawLabels])
    /\ epochs = 0 /\ batch_size = 0 /\ save_interval = 1
    /\ Unset
    /\ locals = NoLocals
    /\ pc = "load_data"

NextPrep == Preprocess

SpecPrep == InitPrep /\ [][NextPrep]_vars

----------------------------------------------------------------------------
(* train: the loop, lines 175-240 *)

\* line 175: half_batch = int(batch_size / 2)
HalfBatchCeil(n) == (n + 1) \div 2

HalfBatch(n) == n \div 2

\* lines 175-184; the class weights divide by half_batch
ClassWeights ==
    /\ pc = "class_weights"
    /\ half_batch' = HalfBatch(batch_size)
    /\ IF half_batch' = 0
       THEN Raise("ZeroDivisionError")
       ELSE pc' = "for" /\ UNCHANGED raised
    /\ UNCHANGED <<cfg, net, args, X_train, y_train, loop, hist, files>>

\* range(n): the values the loop variable takes, in order
range_from_one(n) == [i \in 1..n |-> i]

range(n) == [i \in 1..n |-> i - 1]

\* line 186: the next iteration, or the end of train.  The locals of the
\* previous iteration are dropped here: each is assigned again before the
\* next iteration reads it.
For ==
    /\ pc = "for"
    /\ IF it < Len(range(epochs))
       THEN /\ epoch' = range(epochs)[it + 1]
            /\ it' = it + 1
            /\ pc' = "sample_half"
       ELSE /\ pc' = "done"
            /\ UNCHANGED <<it, epoch>>
    /\ locals' = NoLocals /\ y1' = <<>> /\ x1' = <<>> /\ calls' = <<>>
    /\ UNCHANGED <<cfg, net, args, data, end_params, files, raised>>

Images(idx) == [i \in 1..Len(idx) |-> DatasetImage(X_train[idx[i] + 1])]

\* lines 194-196 (n = half_batch) and 220-221 (n = batch_size)
Sample(at, then, n, with_labels) ==
    /\ pc = at
    /\ IF randint(0, Len(X_train), n) = {}
       THEN /\ Raise("ValueError")
            /\ UNCHANGED <<locals, calls>>
       ELSE \E idx \in randint(0, Len(X_train), n) :
              /\ locals' = [locals EXCEPT
                    !.idx = idx,
                    !.imgs = Images(idx),
                    !.labels = IF with_labels THEN Take(y_train, idx) ELSE @]
              /\ calls' = Append(calls,
                     Call("sample", idx, <<>>, g_params, d_params))
              /\ pc' = then
              /\ UNCHANGED raised
    /\ UNCHANGED <<cfg, net, args, data, it, epoch, y1, x1, end_params, files>>

SampleHalf == Sample("sample_half", "mask_half", half_batch, TRUE)

\* line 198
MaskHalf == MaskCall("mask_half", "predict")

\* The networks a call of generator.predict updates: none
PredictTrains == {"G"}

PredictUpdates == {}

\* line 201: each generated image is the generator, with its parameters of
\* that moment, applied to the masked image
Predict ==
    /\ pc = "predict"
    /\ locals' = [locals EXCEPT !.gen_imgs =
           [i \in 1..Len(locals.masked_imgs) |->
               [input |-> locals.masked_imgs[i], g |-> g_params]]]
    /\ g_params' = g_params + (IF "G" \in PredictUpdates THEN 1 ELSE 0)
    /\ d_params' = d_params + (IF "D" \in PredictUpdates THEN 1 ELSE 0)
    /\ calls' = Append(calls, Call("generator.predict", locals.masked_imgs,
                                   <<>>, g_params', d_params'))
    /\ pc' = "targets"
    /\ UNCHANGED <<cfg, trainable, collected, args, data, it, epoch, y1, x1,
                   end_params, files, raised>>

\* lines 203-207
Targets ==
    /\ pc = "targets"
    /\ locals' = [locals EXCEPT
          !.valid = ones(half_batch),
          !.fake = zeros(half_batch),
          !.labels = to_categorical(locals.labels, num_classes + 1),
          !.fake_labels = to_categorical(full(half_batch, num_classes),
                                         num_classes + 1)]
    /\ pc' = "d_real"
    /\ UNCHANGED <<cfg, net, args, data, it, epoch, y1, x1, hist, files, raised>>

\* model.train_on_batch(x, y): one optimizer step on the weights the model
\* collected when it was compiled
TrainOnBatch(model, x, y, at, then) ==
    /\ pc = at
    /\ g_params' = g_params + (IF "G" \in collected[model] THEN 1 ELSE 0)
    /\ d_params' = d_params + (IF "D" \in collected[model] THEN 1 ELSE 0)
    /\ calls' = Append(calls, Call(model, x, y, g_params', d_params'))
    /\ pc' = then

\* line 210
DReal ==
    /\ TrainOnBatch("discriminator", locals.imgs,
                    <<locals.valid, locals.labels>>, "d_real", "d_fake")
    /\ UNCHANGED <<cfg, trainable, collected, args, data, loop, end_params,
                   files, raised>>

\* lines 211-212
DFake ==
    /\ TrainOnBatch("discriminator", locals.gen_imgs,
                    <<locals.fake, locals.fake_labels>>, "d_fake", "sample_full")
    /\ UNCHANGED <<cfg, trainable, collected, args, data, loop, end_params,
                   files, raised>>

\* lines 220-221
SampleFull == Sample("sample_full", "mask_full", batch_size, FALSE)

\* line 223
MaskFull == MaskCall("mask_full", "g_train")

\* lines 226-229
GTrain ==
    /\ locals' = [locals EXCEPT !.valid = ones(batch_size)]
    /\ TrainOnBatch("combined", locals.masked_imgs,
                    <<locals.imgs, locals'.valid>>, "g_train", "report")
    /\ UNCHANGED <<cfg, trainable, collected, args, data, it, epoch, y1, x1,
                   end_params, files, raised>>

\* line 235: if epoch % save_interval == 0
SaveDueAfter(e, n) == (e + 1) % n = 0

SaveDue(e, n) == e % n = 0

\* lines 232-235: the epoch's parameters are final here
Report ==
    /\ pc = "report"
    /\ end_params' = Append(end_params, <<g_params, d_params>>)
    /\ pc' = IF SaveDue(epoch, save_interval) THEN "save_imgs" ELSE "for"
    /\ UNCHANGED <<cfg, net, args, data, loop, calls, files, raised>>

----------------------------------------------------------------------------
(* save_imgs and save_model, lines 242-275 *)

\* "%d" % n
Digit == <<"0", "1", "2", "3", "4", "5", "6", "7", "8", "9">>
RECURSIVE Decimal(_)
Decimal(n) == IF n < 10 THEN Digit[n + 1]
              ELSE Decimal(n \div 10) \o Digit[(n % 10) + 1]

GridPath(e) == "ccgan/images/cifar_" \o Decimal(e) \o ".png"
ModelPath(name) == "ccgan/saved_model/" \o name \o ".json"
WeightsPath(name) == "ccgan/saved_model/" \o name \o "_weights.hdf5"

ModelName(n) == IF n = "G" THEN "ccgan_generator" ELSE "ccgan_discriminator"
Params(n) == IF n = "G" THEN g_params ELSE d_params

\* open(path, 'w').write(...), save_weights(path): the file is replaced
Write(path, content) == (path :> content) @@ files

\* lines 237-239 and 242-261: c samples are drawn and masked, the generator
\* reconstructs them and the grid is saved.  The grid's content is kept as
\* the generator's parameters that drew it; the samples and offsets drawn
\* decide only its pixels.
SaveImgs ==
    /\ pc = "save_imgs"
    /\ IF randint(0, Len(X_train), c) = {} \/ mask_raises(c)
       THEN Raise("ValueError") /\ UNCHANGED files
       ELSE /\ files' = Write(GridPath(epoch), <<"png", "grid", g_params>>)
            /\ pc' = "save_G_arch"
            /\ UNCHANGED raised
    /\ UNCHANGED <<cfg, net, args, data, loop, hist>>

\* lines 270-271, for the generator (274) and the discriminator (275)
SaveArch(n) ==
    /\ pc = "save_" \o n \o "_arch"
    /\ files' = Write(ModelPath(ModelName(n)), <<"json", n, 0>>)
    /\ pc' = "save_" \o n \o "_weights"
    /\ UNCHANGED <<cfg, net, args, data, loop, hist, raised>>

\* line 272
SaveWeights(n) ==
    /\ pc = "save_" \o n \o "_weights"
    /\ files' = Write(WeightsPath(ModelName(n)), <<"hdf5", n, Params(n)>>)
    /\ pc' = IF n = "G" THEN "save_D_arch" ELSE "for"
    /\ UNCHANGED <<cfg, net, args, data, loop, hist, raised>>

SaveGeneratorArch == SaveArch("G")
SaveGeneratorWeights == SaveWeights("G")
SaveDiscriminatorArch == SaveArch("D")
SaveDiscriminatorWeights == SaveWeights("D")

----------------------------------------------------------------------------
(* The program: ccgan = CCGAN(); ccgan.train(epochs, batch_size, save_interval) *)

Init ==
    /\ \E t \in TrainConfigs :
          /\ img_rows = t[1] /\ img_cols = t[2]
          /\ mask_height = t[3] /\ mask_width = t[4]
    /\ loader \in TrainLoaders
    /\ epochs \in 0..MaxEpochs
    /\ batch_size \in BatchSizes
    /\ save_interval \in 1..MaxInterval
    /\ Unset
    /\ locals = NoLocals
    /\ pc = "compile_discriminator"

Next ==
    \/ CompileDiscriminator \/ CompileGenerator \/ Freeze \/ CompileCombined
    \/ Preprocess \/ ClassWeights \/ For
    \/ SampleHalf \/ MaskHalf \/ Predict \/ Targets \/ DReal \/ DFake
    \/ SampleFull \/ MaskFull \/ GTrain \/ Report
    \/ SaveImgs \/ SaveGeneratorArch \/ SaveGeneratorWeights
    \/ SaveDiscriminatorArch \/ SaveDiscriminatorWeights

Spec == Init /\ [][Next]_vars

\* Single-threaded and blocking: a step that can be taken is taken.
FairSpec == Spec /\ WF_vars(Next)

----------------------------------------------------------------------------
(* Properties of mask_randomly, under SpecMask *)

MaskSmaller == mask_height < img_rows /\ mask_width < img_cols

\* m is img with the mask_height x mask_width rectangle at (y, x) set to 0
\* in every channel and every other pixel kept
IsMaskOf(m, img, y, x) ==
    /\ DOMAIN m = Pixels
    /\ \A p \in Pixels :
          m[p] = IF /\ y <= p[1] /\ p[1] < y + mask_height
                    /\ x <= p[2] /\ p[2] < x + mask_width
                 THEN 0 ELSE img[p]

\* C1: for a mask smaller than the image, mask_randomly returns a batch of
\* the same shape in which, for each image, exactly one rectangle of
\* mask_height x mask_width pixels inside the image is 0 in all channels and
\* every other pixel equals the input pixel.
C1_MaskContract ==
    (pc # "mask_randomly" /\ MaskSmaller) =>
        /\ pc = "masked"
        /\ Len(locals.masked_imgs) = Len(locals.imgs)
        /\ \A i \in 1..Len(locals.imgs) :
              \E y \in 0..(img_rows - mask_height),
                 x \in 0..(img_cols - mask_width) :
                 IsMaskOf(locals.masked_imgs[i], locals.imgs[i], y, x)

\* C8: when mask_height >= img_rows or mask_width >= img_cols, mask_randomly
\* fails with the range error of the offset draw and returns no masked batch.
C8_RangeError ==
    (pc # "mask_randomly" /\ (mask_height >= img_rows \/ mask_width >= img_cols))
        => /\ pc = "error"
           /\ raised = "ValueError"
           /\ locals.masked_imgs = <<>>

\* The offsets <<y, x>> one image's mask can be drawn at
OffsetSupport ==
    {<<yy[1], xx[1]>> : yy \in randint(0, YHigh, 1), xx \in randint(0, XHigh, 1)}

----------------------------------------------------------------------------
(* Properties of the dataset preprocessing, under SpecPrep *)

BothClasses == Selected(CAT) # <<>> /\ Selected(DOG) # <<>>

\* C6: for a dataset with samples of both classes, the retained samples are
\* exactly those of the stacked splits labelled 3 or 5, every retained label
\* is 0 or 1, and the label at the index of a retained image is 0 if the
\* image was labelled 3 and 1 if it was labelled 5.
C6_Preprocessing ==
    (pc # "load_data" /\ BothClasses) =>
        /\ pc = "class_weights"
        /\ {X_train[i] : i \in 1..Len(X_train)}
              = {k \in 1..Len(Stacked) : Stacked[k] \in {CAT, DOG}}
        /\ Len(X_train) = Cardinality({k \in 1..Len(Stacked) :
                                          Stacked[k] \in {CAT, DOG}})
        /\ Len(y_train) = Len(X_train)
        /\ \A i \in 1..Len(y_train) :
              y_train[i] = <<IF Stacked[X_train[i]] = CAT THEN 0 ELSE 1>>

----------------------------------------------------------------------------
(* Properties of construction and training, under Spec *)

Constructed == pc \notin {"compile_discriminator", "compile_generator",
                          "freeze", "compile_combined"}

\* C2: after construction the flag is off, the discriminator model still
\* updates the discriminator's parameters and only them, and the combined
\* model updates the generator's parameters and leaves the discriminator's
\* unchanged.
C2_FrozenInCombined ==
    /\ [](Constructed => /\ trainable = FALSE
                         /\ collected["discriminator"] = {"D"}
                         /\ collected["combined"] = {"G"})
    /\ [][/\ (pc \in {"d_real", "d_fake"} /\ pc' # pc)
                => (d_params' # d_params /\ g_params' = g_params)
          /\ (pc = "g_train" /\ pc' # pc)
                => (d_params' = d_params /\ g_params' # g_params)]_vars

\* C2 witness: both discriminator updates and the combined update of an
\* epoch have run.
C2_Witness ==
    pc = "report" /\ g_params = 1 /\ d_params = 2 /\ trainable = FALSE

Order == <<"sample", "mask_randomly", "generator.predict", "discriminator",
           "discriminator", "sample", "mask_randomly", "combined">>

IterationDone == pc \in {"report", "save_imgs", "save_G_arch", "save_G_weights",
                         "save_D_arch", "save_D_weights"}

\* C3: the steps of an epoch occur in the order sample, mask, predict,
\* discriminator on the real half batch, discriminator on the generated half
\* batch, sample, mask, combined; predict changes no parameter; two
\* discriminator updates precede the one generator update; and the generated
\* half batch was produced with the generator's parameters of the start of
\* the epoch.
C3_StepOrder ==
    /\ Len(calls) <= Len(Order)
    /\ \A i \in 1..Len(calls) : calls[i].fn = Order[i]
    /\ IterationDone => Len(calls) = Len(Order)
    /\ Len(calls) >= 3 =>
          /\ calls[3].g = calls[1].g /\ calls[3].d = calls[1].d
          /\ Len(calls[3].x) = Len(calls[1].x)
          /\ \A i \in 1..Len(calls[3].x) :
                IsMaskOf(calls[3].x[i], Images(calls[1].x)[i],
                         calls[2].y[1][i], calls[2].y[2][i])
    /\ Len(calls) >= 4 =>
          /\ calls[4].x = Images(calls[1].x)
          /\ calls[4].d = calls[3].d + 1 /\ calls[4].g = calls[3].g
    /\ Len(calls) >= 5 =>
          /\ \A i \in 1..Len(calls[5].x) :
                /\ calls[5].x[i].g = calls[1].g
                /\ calls[5].x[i].g = it - 1
                /\ calls[5].x[i].input = calls[3].x[i]
          /\ calls[5].d = calls[4].d + 1 /\ calls[5].g = calls[1].g
    /\ Len(calls) >= 8 =>
          /\ calls[8].g = calls[1].g + 1 /\ calls[8].d = calls[5].d
          /\ calls[7].g = calls[1].g /\ calls[7].d = calls[5].d

\* C3 witness: the second epoch has run all its steps.
C3_Witness == pc = "report" /\ epoch = 1 /\ Len(calls) = 8 /\ g_params = 2

Generator == "ccgan_generator"
Discriminator == "ccgan_discriminator"
CheckpointFiles == {ModelPath(Generator), WeightsPath(Generator),
                    ModelPath(Discriminator), WeightsPath(Discriminator)}

\* the epochs among the first n that are checkpoint epochs
CheckpointEpochs(n) == {e \in 0..(n - 1) : e % save_interval = 0}

Last(S) == CHOOSE e \in S : \A f \in S : f <= e

\* C4: after n iterations the grid files are those of the epochs e < n with
\* e % save_interval = 0, one per such epoch and written in that epoch; the
\* checkpoint files are the four fixed ones, holding the parameters of the
\* last such epoch; no other file is ever written.
C4_SaveInterval ==
    /\ DOMAIN files \subseteq
          CheckpointFiles \cup {GridPath(e) : e \in CheckpointEpochs(epochs)}
    /\ Cardinality(DOMAIN files \cap CheckpointFiles) <= 4
    /\ pc \in {"for", "done"} =>
          /\ DOMAIN files \ CheckpointFiles
                = {GridPath(e) : e \in CheckpointEpochs(it)}
          /\ Cardinality(DOMAIN files \ CheckpointFiles)
                = Cardinality(CheckpointEpochs(it))
          /\ \A e \in CheckpointEpochs(it) :
                files[GridPath(e)] = <<"png", "grid", end_params[e + 1][1]>>
          /\ it >= 1 =>
                /\ CheckpointFiles \subseteq DOMAIN files
                /\ files[WeightsPath(Generator)] =
                     <<"hdf5", "G", end_params[Last(CheckpointEpochs(it)) + 1][1]>>
                /\ files[WeightsPath(Discriminator)] =
                     <<"hdf5", "D", end_params[Last(CheckpointEpochs(it)) + 1][2]>>

\* C4 witness: two epochs with save_interval 2 have a grid for epoch 0 only.
C4_Witness ==
    /\ pc = "done" /\ epochs = 2 /\ save_interval = 2
    /\ DOMAIN files \ CheckpointFiles = {"ccgan/images/cifar_0.png"}

\* C5: at any point after the first checkpoint has been written (the process
\* may be terminated there, leaving the files as they are), both weight files
\* hold the parameters the two networks had at the end of one and the same
\* checkpoint epoch.
C5_RecoveryPoint ==
    CheckpointFiles \subseteq DOMAIN files =>
        \E e \in CheckpointEpochs(Len(end_params)) :
            /\ files[WeightsPath(Generator)][3] = end_params[e + 1][1]
            /\ files[WeightsPath(Discriminator)][3] = end_params[e + 1][2]

\* The class the dataset provider gave the image (all its pixels hold its
\* position in the stacked splits)
ClassOf(img) == IF Stacked[img[<<0, 0, 0>>]] = CAT THEN 0 ELSE 1
OneHot(k) == [j \in 1..(num_classes + 1) |-> IF j = k + 1 THEN 1 ELSE 0]
IsHalf(h) == 2 * h <= batch_size /\ batch_size < 2 * h + 2

GoodRun ==
    /\ BothClasses /\ Len(Selected(CAT)) = Len(Selected(DOG))
    /\ mask_height < img_rows /\ mask_width < img_rows
    /\ batch_size >= 2

InBody == pc \in {"sample_half", "mask_half", "predict", "targets", "d_real",
                  "d_fake", "sample_full", "mask_full", "g_train"}

\* C7: with as many images of one class as of the other, train terminates
\* without error; it has then run exactly `epochs` iterations, with epoch
\* indices counting from 0; with epochs = 1 the four checkpoint files and the
\* grid file of epoch 0 are then written.
C7_OneEpoch ==
    /\ [](pc = "done" => /\ raised = ""
                         /\ it = epochs
                         /\ Len(end_params) = epochs)
    /\ []((InBody \/ IterationDone) => epoch = it - 1)
    /\ []((pc = "done" /\ epochs = 1) =>
             DOMAIN files = CheckpointFiles \cup {"ccgan/images/cifar_0.png"})
    /\ [](GoodRun => <>(pc = "done"))

\* C7 witness: train(epochs = 1) has ended with its files written.
C7_Witness ==
    /\ pc = "done" /\ epochs = 1 /\ raised = "" /\ Len(end_params) = 1
    /\ "ccgan/images/cifar_0.png" \in DOMAIN files
    /\ CheckpointFiles \subseteq DOMAIN files

====
